---- MODULE Spec2Model ----
(***************************************************************************)
(* Candidate-job matching engine of the internal movement portal.          *)
(*                                                                         *)
(* The model covers the persisted job_matches table and the operations     *)
(* that read or write it: the semantic trigger (PureSemanticMatchService), *)
(* the rule-based trigger (MatchService), the manual shortlist route and   *)
(* the on-demand single-pair score.  Every committed transaction of a      *)
(* handler is one step; the semantic trigger commits twice (clear, then    *)
(* store) and is therefore two steps, between which other requests run.    *)
(*                                                                         *)
(* Units: a similarity is an integer number of 1/10000, a computed score   *)
(* an integer number of tenths of a percent, a persisted score an integer  *)
(* percent (JobMatch.score is an Integer column).                          *)
(***************************************************************************)
EXTENDS Integers, Sequences, FiniteSets, Bags, TLC

\* ---------------------------------------------------------------- bounds
NumEmployees == 1
MaxInFlight == 2

\* ------------------------------------------------------- program constants
\* self.min_similarity_threshold = 0.05, in 1/10000
min_similarity_threshold == 500
\* the score shortlist_candidate uses when scoring raises: 50.0, in tenths
default_score == 500

\* ------------------------------------------------------------ the tables
\* an id no row of the jobs table has
MissingJob == 0
\* rows of the employees table
Employees == 1..NumEmployees

\* Employee.role: the employee ids cycle through the roles
RoleOf(e) ==
  IF e % 3 = 1 THEN "employee" ELSE IF e % 3 = 2 THEN "manager" ELSE "hr"

\* the employees the role filter of the semantic path lets through
RoleCandidates == {e \in Employees : RoleOf(e) \in {"employee", "manager"}}

\* the values the TF-IDF + LSA cosine similarity takes in the model:
\* just under the threshold, and 0.6794 (a score of 67.9)
SimValues == {490, 6794}
\* round(x, 1) of a similarity * 100: n/d rounded to the nearest integer, half to even
RoundHalfEven(n, d) ==
  LET q == n \div d
      r == n % d
  IN  IF 2 * r < d THEN q
      ELSE IF 2 * r > d THEN q + 1
      ELSE IF q % 2 = 0 THEN q ELSE q + 1

\* the cosine similarities the single-pair path gets from its own fit, in
\* 1/10000: nothing between the fit and the return restricts their sign
PairSimValues == {-3000, 6794}
\* round(similarity * 100, 1) of them: the score of the single-pair path when its
\* fit succeeds (tenths of a percent)
PairScoreValues == {RoundHalfEven(s, 10) : s \in PairSimValues}
\* the word-overlap score of the single-pair path when its fit raises
FallbackScoreValues == {674}

VARIABLES
  jobs,                \* the ids of the rows of the jobs table
  visibility_opt_out,  \* Employee.visibility_opt_out, per employee
  education,           \* Employee.education: a list of "strings" or of "dicts"
  pipeline,            \* per job: what fit_transform + cosine_similarity yields on
                       \* the current data: <<>> when the fit raises, else <<f>>
                       \* with f the similarity of every candidate
  job_matches,         \* the committed rows of the job_matches table (a bag)
  in_flight,           \* bag of job ids: semantic triggers between clear and store
  last                 \* the most recently completed call and its outcome

vars == <<jobs, visibility_opt_out, education, pipeline, job_matches, in_flight, last>>
data == <<jobs, visibility_opt_out, education, pipeline>>

FitError == <<>>
Pipelines == {FitError} \cup {<<f>> : f \in [RoleCandidates -> SimValues]}

\* the job ids a caller may pass
JobIds == jobs \cup {MissingJob}

\* ---------------------------------------------------------------- helpers
\* int(x) of a score in tenths: truncation toward zero, in percent
IntOf(score) == IF score >= 0 THEN score \div 10 ELSE -((-score) \div 10)

\* the orders in which a SELECT without ORDER BY may return the set S
Orders(S) ==
  {s \in [1..Cardinality(S) -> S] : \A i, k \in 1..Cardinality(S) : s[i] = s[k] => i = k}

\* the rows of bag B for job j, and for the pair (j, e)
RowsOfJob(B, j) ==
  LET R == {r \in BagToSet(B) : r.job_id = j} IN [r \in R |-> B[r]]
RowsOfPair(B, j, e) ==
  LET R == {r \in BagToSet(B) : r.job_id = j /\ r.employee_id = e} IN [r \in R |-> B[r]]

\* a DELETE FROM job_matches without its WHERE clause
DeleteAllRows(B, j) == EmptyBag

\* DELETE FROM job_matches WHERE job_id = j
DeleteJobRows(B, j) ==
  LET keep == {r \in BagToSet(B) : r.job_id # j}
  IN  [r \in keep |-> B[r]]

\* the record of a completed call: what it returned or raised, the statements
\* it sent to the database, the match list it computed, the score it returned
Call(op, j, outcome, error, db_ops, matches, score) ==
  [op |-> op, job_id |-> j, outcome |-> outcome, error |-> error,
   db_ops |-> db_ops, matches |-> matches, score |-> score]

NoCall == Call("none", MissingJob, "returned", "", {}, <<>>, <<>>)

TypeOK ==
  /\ visibility_opt_out \in [Employees -> BOOLEAN]
  /\ education \in [Employees -> {"strings", "dicts"}]
  /\ pipeline \in [jobs -> Pipelines]
  /\ IsABag(job_matches)
  /\ IsABag(in_flight)
  /\ BagCardinality(in_flight) <= MaxInFlight

\* one job posting, any profiles, no match computed yet
Init ==
  /\ jobs = {1}
  /\ visibility_opt_out \in [Employees -> BOOLEAN]
  /\ education \in [Employees -> {"strings", "dicts"}]
  /\ pipeline \in [jobs -> Pipelines]
  /\ job_matches = EmptyBag
  /\ in_flight = EmptyBag
  /\ last = NoCall

\* ------------------------------------------------- PureSemanticMatchService
\* the WHERE clause without its visibility_opt_out condition
SemanticEligibleByRoleOnly == RoleCandidates

\* the WHERE clause of calculate_semantic_matches
SemanticEligible ==
  {e \in Employees :
     RoleOf(e) \in {"employee", "manager"} /\ visibility_opt_out[e] = FALSE}

\* _extract_employee_semantic_content: ", ".join(employee.education) raises
\* TypeError when the list holds dicts (the profile schema allows them)
ExtractRaises(e) == education[e] = "dicts"

\* matches.sort(key=semantic_similarity, reverse=True): a stable sort, equal
\* similarities keep the order in which they were appended
RECURSIVE SortBySimilarity(_)
SortBySimilarity(s) ==
  IF s = <<>> THEN <<>>
  ELSE LET n == Len(s)
           front == SortBySimilarity(SubSeq(s, 1, n - 1))
           m == s[n]
           ahead == SelectSeq(front, LAMBDA x : x.semantic_similarity >= m.semantic_similarity)
           behind == SelectSeq(front, LAMBDA x : x.semantic_similarity < m.semantic_similarity)
       IN  ahead \o <<m>> \o behind

\* lines 119-131: the matches of the employees (in fetch order) given their similarities
RECURSIVE ThresholdMatches(_, _)
ThresholdMatches(employees, similarities) ==
  IF employees = <<>> THEN <<>>
  ELSE LET e == Head(employees)
           similarity == similarities[e]
           rest == ThresholdMatches(Tail(employees), similarities)
       IN  IF similarity >= min_similarity_threshold
           THEN <<[employee_id |-> e,
                   score |-> RoundHalfEven(similarity, 10),
                   semantic_similarity |-> similarity]>> \o rest
           ELSE rest

\* the matches in the order the employees were fetched, the sort left out
SemanticMatchesUnsorted(employees, similarities) ==
  ThresholdMatches(employees, similarities)

\* lines 116-137: the matches of the pool, sorted by similarity
SemanticMatches(employees, similarities) ==
  SortBySimilarity(ThresholdMatches(employees, similarities))

\* a stored row that is flagged as shortlisted by the engine
SemanticRowShortlisted(j, m) ==
  [job_id |-> j, employee_id |-> m.employee_id, score |-> IntOf(m.score),
   shortlisted |-> TRUE, method |-> "advanced_semantic_tfidf_lsa"]

\* the JobMatch row _store_semantic_matches builds for a match
SemanticRow(j, m) ==
  [job_id |-> j, employee_id |-> m.employee_id, score |-> IntOf(m.score),
   shortlisted |-> FALSE, method |-> "advanced_semantic_tfidf_lsa"]

\* db.add_all / db.add of a list of rows: each is inserted, equal rows pile up
RECURSIVE RowsBag(_)
RowsBag(rows) ==
  IF rows = <<>> THEN EmptyBag
  ELSE SetToBag({Head(rows)}) (+) RowsBag(Tail(rows))

\* _store_semantic_matches: the rows it inserts (none, and no commit, for no match)
SemanticRows(j, matches) ==
  RowsBag([i \in 1..Len(matches) |-> SemanticRow(j, matches[i])])

\* a pool check that never returns early
PoolIsEmptyNever(employees) == FALSE

\* len(employees) < 1
PoolIsEmpty(employees) == Cardinality(employees) < 1

\* calculate_semantic_matches on the current data: every way it can end, as the
\* call record and the rows its store inserts. The statements of the clear that
\* trigger_job_matching ran before it are part of the call.
SemanticResults(j) ==
  LET cleared == {"delete", "commit"}
      Returned(ms) ==
        [call |-> Call("trigger_semantic", j, "returned", "",
                       IF ms = <<>> THEN cleared ELSE cleared \cup {"insert"}, ms, <<>>),
         insert |-> SemanticRows(j, ms)]
      Raised(error) ==
        [call |-> Call("trigger_semantic", j, "raised", error, cleared, <<>>, <<>>),
         insert |-> EmptyBag]
  IN  IF j \notin jobs THEN {Returned(<<>>)}
      ELSE IF PoolIsEmpty(SemanticEligible) THEN {Returned(<<>>)}
      ELSE IF \E e \in SemanticEligible : ExtractRaises(e)
      THEN {Raised("TypeError")}
      ELSE IF pipeline[j] = FitError THEN {Returned(<<>>)}
      \* cosine_similarity(job_vector, employee_vectors) rejects an empty array
      ELSE IF SemanticEligible = {} THEN {Raised("ValueError")}
      ELSE {Returned(SemanticMatches(employees, pipeline[j][1])) :
              employees \in Orders(SemanticEligible)}

\* a trigger that starts without deleting the rows of its job
ClearNothing(j) ==
  /\ BagCardinality(in_flight) < MaxInFlight
  /\ in_flight' = in_flight (+) SetToBag({j})
  /\ UNCHANGED <<data, job_matches, last>>

\* trigger_job_matching up to the commit of _clear_existing_matches
ClearExistingMatches(j) ==
  /\ BagCardinality(in_flight) < MaxInFlight
  /\ job_matches' = DeleteJobRows(job_matches, j)
  /\ in_flight' = in_flight (+) SetToBag({j})
  /\ UNCHANGED <<data, last>>

\* the rest of trigger_job_matching: calculate_semantic_matches and its store
CalculateSemanticMatches(j) ==
  /\ BagIn(j, in_flight)
  /\ in_flight' = in_flight (-) SetToBag({j})
  /\ \E r \in SemanticResults(j) :
       /\ job_matches' = job_matches (+) r.insert
       /\ last' = r.call
  /\ UNCHANGED data

\* a trigger that stores its rows without clearing the rows of the job first
TriggerWithoutClear(j) ==
  /\ \E r \in SemanticResults(j) :
       /\ job_matches' = job_matches (+) r.insert
       /\ last' = r.call
  /\ UNCHANGED <<data, in_flight>>

\* trigger_job_matching when no other request runs between its two commits
TriggerJobMatching(j) ==
  /\ \E r \in SemanticResults(j) :
       /\ job_matches' = DeleteJobRows(job_matches, j) (+) r.insert
       /\ last' = r.call
  /\ UNCHANGED <<data, in_flight>>

\* calculate_match_score: the extraction runs outside the try block, so its
\* TypeError reaches the caller; inside the try block the score of the fitted
\* pair is returned, or the word overlap when the fit raises
MatchScoreOutcomes(j, e) ==
  IF ExtractRaises(e)
  THEN {[raised |-> TRUE, path |-> "TypeError", score |-> 0]}
  ELSE {[raised |-> FALSE, path |-> "", score |-> s] : s \in PairScoreValues}
       \cup {[raised |-> FALSE, path |-> "fallback", score |-> s] : s \in FallbackScoreValues}

\* a calculate_match_score that added a row for the pair it scored
CalculateMatchScoreStoring(j, e) ==
  /\ j \in jobs
  /\ \E o \in MatchScoreOutcomes(j, e) :
       /\ last' = IF o.raised
                  THEN Call("score", j, "raised", o.path, {}, <<>>, <<>>)
                  ELSE Call("score", j, "returned", o.path, {}, <<>>, <<o.score>>)
       /\ job_matches' =
            job_matches (+) SetToBag({[job_id |-> j, employee_id |-> e,
                                       score |-> IntOf(o.score), shortlisted |-> FALSE,
                                       method |-> "semantic"]})
  /\ UNCHANGED <<data, in_flight>>

\* the on-demand score of one pair, as discover_candidates asks for it
CalculateMatchScore(j, e) ==
  /\ j \in jobs
  /\ \E o \in MatchScoreOutcomes(j, e) :
       last' = IF o.raised
               THEN Call("score", j, "raised", o.path, {}, <<>>, <<>>)
               ELSE Call("score", j, "returned", o.path, {}, <<>>, <<o.score>>)
  /\ UNCHANGED <<data, job_matches, in_flight>>

\* ------------------------------------------------------------- MatchService
\* the WHERE clause of calculate_matches_for_job
RuleEligible ==
  {e \in Employees : RoleOf(e) = "employee" /\ visibility_opt_out[e] = FALSE}

\* _store_matches: the delete and the inserts of one transaction
StoreMatches(B, j, rows) == DeleteJobRows(B, j) (+) RowsBag(rows)

\* a rule trigger that deletes and commits the rows of the job before it scores
RuleTriggerDeleteFirst(j) ==
  /\ UNCHANGED <<data, in_flight>>
  /\ IF j \notin jobs
     THEN /\ last' = Call("trigger_rule", j, "returned", "", {}, <<>>, <<>>)
          /\ UNCHANGED job_matches
     ELSE /\ job_matches' = DeleteJobRows(job_matches, j)
          /\ last' = IF RuleEligible # {}
                     THEN Call("trigger_rule", j, "raised", "AttributeError",
                               {"delete", "commit"}, <<>>, <<>>)
                     ELSE Call("trigger_rule", j, "returned", "", {"delete", "commit"},
                               <<>>, <<>>)

\* MatchService.trigger_job_matching: one transaction. The scoring loop raises at
\* its first employee: _calculate_experience_match reads employee.years_experience
\* and Employee has no such column (it has months_experience)
RuleTrigger(j) ==
  /\ UNCHANGED <<data, in_flight>>
  /\ IF j \notin jobs
     THEN /\ last' = Call("trigger_rule", j, "returned", "", {}, <<>>, <<>>)
          /\ UNCHANGED job_matches
     ELSE IF RuleEligible # {}
     THEN /\ last' = Call("trigger_rule", j, "raised", "AttributeError", {}, <<>>, <<>>)
          /\ UNCHANGED job_matches
     ELSE /\ job_matches' = StoreMatches(job_matches, j, <<>>)
          /\ last' = Call("trigger_rule", j, "returned", "", {"delete", "commit"},
                          <<>>, <<>>)

\* ------------------------------------------------------- shortlist_candidate
ShortlistRow(j, e, score) ==
  [job_id |-> j, employee_id |-> e, score |-> IntOf(score),
   shortlisted |-> TRUE, method |-> "semantic"]

ShortlistCandidate(j, e) ==
  /\ UNCHANGED <<data, in_flight>>
  /\ LET existing == RowsOfPair(job_matches, j, e)
     IN  IF j \notin jobs
         THEN /\ last' = Call("shortlist", j, "raised", "HTTP404", {}, <<>>, <<>>)
              /\ UNCHANGED job_matches
         ELSE IF BagCardinality(existing) > 1
         THEN \* scalar_one_or_none
              /\ last' = Call("shortlist", j, "raised", "MultipleResultsFound",
                              {}, <<>>, <<>>)
              /\ UNCHANGED job_matches
         ELSE IF BagCardinality(existing) = 1
         THEN LET r == CHOOSE x \in BagToSet(existing) : TRUE
              IN  /\ job_matches' = (job_matches (-) SetToBag({r}))
                                       (+) SetToBag({[r EXCEPT !.shortlisted = TRUE]})
                  /\ last' = Call("shortlist", j, "returned", "", {"update", "commit"},
                                  <<>>, <<>>)
         ELSE \E o \in MatchScoreOutcomes(j, e) :
                LET score == IF o.raised THEN default_score ELSE o.score
                IN  /\ job_matches' = job_matches (+) SetToBag({ShortlistRow(j, e, score)})
                    /\ last' = Call("shortlist", j, "returned", "", {"insert", "commit"},
                                    <<>>, <<>>)

\* ------------------------------------------------------ update_my_profile
\* the request bodies of a profile update: only the fields a body sets are
\* written, and a body here sets one of the opt-out flag, the education list or
\* the profile texts; new texts make the pipeline yield whatever it yields on them
ProfileUpdates(e) ==
  LET current == [visibility_opt_out |-> visibility_opt_out[e],
                  education |-> education[e],
                  pipeline |-> pipeline]
  IN  {[current EXCEPT !.visibility_opt_out = o] : o \in BOOLEAN}
      \cup {[current EXCEPT !.education = d] : d \in {"strings", "dicts"}}
      \cup {[current EXCEPT !.pipeline = p] : p \in [jobs -> Pipelines]}

UpdateProfile(e, update) ==
  /\ visibility_opt_out' = [visibility_opt_out EXCEPT ![e] = update.visibility_opt_out]
  /\ education' = [education EXCEPT ![e] = update.education]
  /\ pipeline' = update.pipeline
  /\ last' = Call("update_profile", MissingJob, "returned", "", {"update", "commit"},
                  <<>>, <<>>)
  /\ UNCHANGED <<jobs, job_matches, in_flight>>

\* The semantic trigger of an existing job is two steps. For an id without a job
\* its first commit deletes no row (no row refers to a missing job), so the two
\* commits are taken as the one step TriggerJobMatching.
Next ==
  \/ \E j \in jobs : ClearExistingMatches(j)
  \/ \E j \in jobs : CalculateSemanticMatches(j)
  \/ \E j \in JobIds \ jobs : TriggerJobMatching(j)
  \/ \E j \in JobIds : RuleTrigger(j)
  \/ \E j \in JobIds, e \in Employees : ShortlistCandidate(j, e)
  \/ \E j \in JobIds, e \in Employees : CalculateMatchScore(j, e)
  \/ \E e \in Employees : \E u \in ProfileUpdates(e) : UpdateProfile(e, u)

Spec == Init /\ [][Next]_vars

\* the requests one after the other: no request runs between the two commits
\* of a semantic trigger
NextSequential ==
  \/ \E j \in JobIds : TriggerJobMatching(j)
  \/ \E j \in JobIds : RuleTrigger(j)
  \/ \E j \in JobIds, e \in Employees : ShortlistCandidate(j, e)
  \/ \E j \in JobIds, e \in Employees : CalculateMatchScore(j, e)
  \/ \E e \in Employees : \E u \in ProfileUpdates(e) : UpdateProfile(e, u)

SpecSequential == Init /\ [][NextSequential]_vars

\* concurrent triggers over unchanged data: nothing but triggers runs
NextTriggers ==
  \/ \E j \in jobs : ClearExistingMatches(j)
  \/ \E j \in jobs : CalculateSemanticMatches(j)
  \/ \E j \in JobIds \ jobs : TriggerJobMatching(j)
  \/ \E j \in JobIds : RuleTrigger(j)

SpecTriggers == Init /\ [][NextTriggers]_vars

\* ---------------------------------------------- MatchService: the rule scorer
\* A factor (a float between 0.0 and 1.0 in the code) is an integer number of
\* 1/3600, so that thirds, tenths and their products are exact; a rule score is
\* in the same unit: percent times 3600.
FullFactor == 3600

\* self.weights
weights ==
  [required_skills_exact |-> 30, required_skills_similar |-> 15,
   optional_skills_match |-> 10, experience_match |-> 20, career_alignment |-> 15,
   education_relevance |-> 5, certification_bonus |-> 5]

\* if score >= 20.0
qualification_threshold == 20

\* skill.lower().strip() on the skill strings of the model
lower_strip ==
  [s \in {"Python", "FastAPI", "AWS", "Java", "JavaScript", "Django",
          "Machine Learning", "Deep Learning", " "} |->
     CASE s = "Python" -> "python"
       [] s = "FastAPI" -> "fastapi"
       [] s = "AWS" -> "aws"
       [] s = "Java" -> "java"
       [] s = "JavaScript" -> "javascript"
       [] s = "Django" -> "django"
       [] s = "Machine Learning" -> "machine learning"
       [] s = "Deep Learning" -> "deep learning"
       [] s = " " -> ""]

\* _normalize_skills: lower-cased, stripped, blank entries dropped
NormalizeSkills(skills) == {lower_strip[s] : s \in {t \in skills : lower_strip[t] # ""}}

\* self.skill_synonyms: base skill and its synonyms
skill_synonyms ==
  {<<"javascript", {"js", "node.js", "nodejs", "react", "vue", "angular"}>>,
   <<"python", {"django", "flask", "fastapi", "pytorch", "tensorflow"}>>,
   <<"java", {"spring", "spring boot", "hibernate", "maven", "gradle"}>>,
   <<"aws", {"amazon web services", "ec2", "s3", "lambda", "cloud"}>>,
   <<"kubernetes", {"k8s", "docker", "containerization", "orchestration"}>>,
   <<"sql", {"database", "postgresql", "mysql", "mongodb", "nosql"}>>,
   <<"devops", {"ci/cd", "jenkins", "deployment", "automation"}>>,
   <<"machine learning", {"ml", "ai", "data science", "analytics"}>>,
   <<"react", {"reactjs", "frontend", "ui", "javascript"}>>,
   <<"angular", {"typescript", "frontend", "spa"}>>}

\* a in b, for the normalized strings of the model: a is a substring of b
SubstringOf(a, b) == a = b \/ <<a, b>> \in {<<"java", "javascript">>}

\* skill.split(): the words of a normalized skill
WordsOf(skill) ==
  CASE skill = "machine learning" -> {"machine", "learning"}
    [] skill = "deep learning" -> {"deep", "learning"}
    [] OTHER -> {skill}

\* _calculate_skill_similarity: 0.8 for synonyms, 0.6 for containment, else
\* 0.4 times the Jaccard overlap of the words
SkillSimilarity(skill1, skill2) ==
  IF \E p \in skill_synonyms :
       /\ (skill1 = p[1] \/ skill1 \in p[2])
       /\ (skill2 = p[1] \/ skill2 \in p[2])
  THEN (FullFactor * 8) \div 10
  ELSE IF SubstringOf(skill1, skill2) \/ SubstringOf(skill2, skill1)
  THEN (FullFactor * 6) \div 10
  ELSE (Cardinality(WordsOf(skill1) \cap WordsOf(skill2)) * ((FullFactor * 4) \div 10))
         \div Cardinality(WordsOf(skill1) \cup WordsOf(skill2))

\* a skills match that counts no required skill as no match
SkillsMatchEmptyZero(job_skills, employee_skills) ==
  IF job_skills = {} THEN 0
  ELSE (Cardinality(job_skills \cap employee_skills) * FullFactor)
         \div Cardinality(job_skills)

\* _calculate_skills_match: the share of the job's skills the employee has
SkillsMatch(job_skills, employee_skills) ==
  IF job_skills = {} THEN FullFactor
  ELSE (Cardinality(job_skills \cap employee_skills) * FullFactor)
         \div Cardinality(job_skills)

MaxOf(S) == IF S = {} THEN 0 ELSE CHOOSE x \in S : \A y \in S : y <= x

RECURSIVE SumOver(_, _)
SumOver(S, f) ==
  IF S = {} THEN 0
  ELSE LET x == CHOOSE y \in S : TRUE IN f[x] + SumOver(S \ {x}, f)

\* _calculate_similar_skills_match: for every job skill the employee lacks, the
\* best similarity to one of the employee's skills; the sum over len(job_skills)
SimilarSkillsMatch(job_skills, employee_skills) ==
  IF job_skills = {} THEN 0
  ELSE LET unmatched == job_skills \ employee_skills
           best == [s \in unmatched |->
                      MaxOf({SkillSimilarity(s, t) : t \in employee_skills})]
       IN  SumOver(unmatched, best) \div Cardinality(job_skills)

Min(a, b) == IF a <= b THEN a ELSE b
Max(a, b) == IF a >= b THEN a ELSE b

\* _calculate_experience_match after its two reads: 1.0 without a requirement
\* or with enough experience, else 1.0 less 0.2 per missing year, not below 0.0
ExperienceFactor(min_required, employee_exp) ==
  IF min_required = 0 THEN FullFactor
  ELSE IF employee_exp >= min_required
  THEN LET bonus == Min((employee_exp - min_required) * (FullFactor \div 10),
                        (FullFactor * 3) \div 10)
       IN  Min(FullFactor + bonus, FullFactor)
  ELSE Max(0, FullFactor - (min_required - employee_exp) * (FullFactor \div 5))

\* _calculate_experience_match: employee.years_experience is read first; an
\* employee record without that attribute makes the read raise AttributeError
ExperienceMatch(job, employee) ==
  IF "years_experience" \notin DOMAIN employee
  THEN [raised |-> TRUE, error |-> "AttributeError", value |-> 0]
  ELSE [raised |-> FALSE, error |-> "",
        value |-> ExperienceFactor(job.min_years_experience, employee.years_experience)]

\* a text (aspirations, joined education, joined certifications) is the set of
\* its lower-cased words; "x in text" holds when a word of the text contains x
Mentions(text, x) == \E w \in text : SubstringOf(x, w)

\* _calculate_career_alignment
CareerAlignment(job, employee) ==
  IF employee.career_aspirations = {} THEN FullFactor \div 2
  ELSE LET job_skills == NormalizeSkills(job.required_skills)
           title == IF job.title \cap employee.career_aspirations # {}
                    THEN (FullFactor * 6) \div 10 ELSE 0
           skill_mentions ==
             Cardinality({s \in job_skills : Mentions(employee.career_aspirations, s)})
           alignment == IF job_skills = {} THEN 0
                        ELSE (skill_mentions * ((FullFactor * 4) \div 10))
                               \div Cardinality(job_skills)
       IN  Min(title + alignment, FullFactor)

tech_keywords == {"computer", "software", "engineering", "science", "technology", "data"}

\* _calculate_education_relevance
EducationRelevance(job, employee) ==
  IF employee.education = {} THEN 0
  ELSE LET job_skills == NormalizeSkills(job.required_skills)
           keywords == Cardinality({k \in tech_keywords : Mentions(employee.education, k)})
           skills == Cardinality({s \in job_skills : Mentions(employee.education, s)})
       IN  Min(keywords * (FullFactor \div 5) + skills * (FullFactor \div 10), FullFactor)

\* _calculate_certification_match
CertificationMatch(job, employee) ==
  IF employee.certifications = {} THEN 0
  ELSE IF job.preferred_certifications = {} THEN (FullFactor * 3) \div 10
  ELSE LET matches == Cardinality({c \in job.preferred_certifications :
                                     Mentions(employee.certifications, c)})
       IN  IF matches > 0
           THEN Min((matches * FullFactor) \div Cardinality(job.preferred_certifications),
                    FullFactor)
           ELSE FullFactor \div 10

\* the weighted sum of _calculate_industry_standard_score given the experience
\* factor, capped at 100.0
WeightedTotal(job, employee, experience_score) ==
  LET job_required_skills == NormalizeSkills(job.required_skills)
      job_optional_skills == NormalizeSkills(job.optional_skills)
      employee_skills == NormalizeSkills(employee.technical_skills)
      total_score ==
          SkillsMatch(job_required_skills, employee_skills) * weights.required_skills_exact
        + SimilarSkillsMatch(job_required_skills, employee_skills)
            * weights.required_skills_similar
        + SkillsMatch(job_optional_skills, employee_skills) * weights.optional_skills_match
        + experience_score * weights.experience_match
        + CareerAlignment(job, employee) * weights.career_alignment
        + EducationRelevance(job, employee) * weights.education_relevance
        + CertificationMatch(job, employee) * weights.certification_bonus
  IN  Min(total_score, 100 * FullFactor)

\* _calculate_industry_standard_score: the experience term is the fourth one
\* computed, and when it raises no score is returned
IndustryStandardScore(job, employee) ==
  LET experience == ExperienceMatch(job, employee)
  IN  IF experience.raised
      THEN [raised |-> TRUE, error |-> experience.error, score |-> 0]
      ELSE [raised |-> FALSE, error |-> "",
            score |-> WeightedTotal(job, employee, experience.value)]

\* matches.sort(key=score, reverse=True): a stable sort on the rounded score
RECURSIVE SortByScore(_)
SortByScore(s) ==
  IF s = <<>> THEN <<>>
  ELSE LET n == Len(s)
           front == SortByScore(SubSeq(s, 1, n - 1))
           m == s[n]
           ahead == SelectSeq(front, LAMBDA x : x.score >= m.score)
           behind == SelectSeq(front, LAMBDA x : x.score < m.score)
       IN  ahead \o <<m>> \o behind

\* the loop of calculate_matches_for_job given each employee's score: a match
\* (score rounded to tenths of a percent) for every score of at least 20.0
RECURSIVE QualifiedMatches(_, _)
QualifiedMatches(employees, scores) ==
  IF employees = <<>> THEN <<>>
  ELSE LET rest == QualifiedMatches(Tail(employees), Tail(scores))
       IN  IF Head(scores) >= qualification_threshold * FullFactor
           THEN <<[employee_id |-> Head(employees).id,
                   score |-> RoundHalfEven(Head(scores), FullFactor \div 10)]>> \o rest
           ELSE rest

\* calculate_matches_for_job from the fetched employees on: no exception of the
\* scorer is caught, so the first employee whose scoring raises ends the call
RuleMatches(job, employees) ==
  LET results == [i \in DOMAIN employees |-> IndustryStandardScore(job, employees[i])]
  IN  IF \E i \in DOMAIN employees : results[i].raised
      THEN LET i == CHOOSE k \in DOMAIN employees :
                      results[k].raised /\ \A l \in 1..(k - 1) : ~results[l].raised
           IN  [raised |-> TRUE, error |-> results[i].error, matches |-> <<>>]
      ELSE [raised |-> FALSE, error |-> "",
            matches |-> SortByScore(QualifiedMatches(
                          employees, [i \in DOMAIN employees |-> results[i].score]))]

\* the job postings and employee profiles the rule scorer is applied to.  An
\* employee has the attributes of the Employee model: months_experience, and no
\* years_experience
RuleJobs ==
  [title : {{"backend", "engineer"}},
   required_skills : {{}, {" "}, {"Java"}, {"Python", "FastAPI", "AWS"}},
   optional_skills : {{}, {"Django"}},
   min_years_experience : {0, 3},
   preferred_certifications : {{}, {"aws"}}]

RuleEmployees ==
  [id : {1},
   technical_skills : {{}, {"Java"}, {"Python", "FastAPI", "AWS"}, {"Django", "JavaScript"}},
   months_experience : {12, 60},
   career_aspirations : {{}, {"backend", "python"}},
   education : {{}, {"computer", "science"}},
   certifications : {{}, {"aws"}}]

\* the results of the employee query: one or two employees, in any order
RulePools ==
  LET plain == {e \in RuleEmployees :
                  e.career_aspirations = {} /\ e.education = {} /\ e.certifications = {}}
  IN  {<<>>} \cup {<<a>> : a \in plain}
      \cup {<<a, [b EXCEPT !.id = 2]>> : a \in plain, b \in plain}
      \cup {<<[b EXCEPT !.id = 2], a>> : a \in plain, b \in plain}

\* one call of _calculate_industry_standard_score
ScoreCandidate(job, employee) ==
  /\ LET r == IndustryStandardScore(job, employee)
     IN  last' = [op |-> "rule_score", job |-> job, employee |-> employee,
                  outcome |-> IF r.raised THEN "raised" ELSE "returned",
                  error |-> r.error,
                  score |-> IF r.raised THEN <<>> ELSE <<r.score>>]
  /\ UNCHANGED <<data, job_matches, in_flight>>

\* one run of the scoring loop of calculate_matches_for_job
ScorePool(job, employees) ==
  /\ LET r == RuleMatches(job, employees)
     IN  last' = [op |-> "rule_matches", job |-> job, employees |-> employees,
                  outcome |-> IF r.raised THEN "raised" ELSE "returned",
                  error |-> r.error, matches |-> r.matches]
  /\ UNCHANGED <<data, job_matches, in_flight>>

\* the rule scorer alone, applied once to a posting and a profile, or a pool
InitRuleScorer ==
  /\ Init
  /\ visibility_opt_out = [e \in Employees |-> FALSE]
  /\ education = [e \in Employees |-> "strings"]
  /\ pipeline = [j \in jobs |-> FitError]

NextRuleScorer ==
  \/ last = NoCall /\ \E job \in RuleJobs, employee \in RuleEmployees :
                         ScoreCandidate(job, employee)
  \/ last = NoCall /\ \E job \in RuleJobs, employees \in RulePools :
                         ScorePool(job, employees)

SpecRuleScorer == InitRuleScorer /\ [][NextRuleScorer]_vars

\* ----------------------------------------------------------------- retrain
\* Job.status: odd job ids are open postings, even ones are closed
StatusOf(j) == IF j % 2 = 1 THEN "open" ELSE "closed"

OpenJobs == {j \in jobs : StatusOf(j) = "open"}

\* PureSemanticMatchService.retrain_model: resets the fitted flag, counts the
\* open jobs and the eligible employees, and returns the summary; it computes
\* and stores no match
RetrainModel ==
  /\ last' = [op |-> "retrain_model", outcome |-> "returned", error |-> "",
              summary |-> [status |-> "success",
                           jobs_processed |-> Cardinality(OpenJobs),
                           employees_processed |-> Cardinality(SemanticEligible)]]
  /\ UNCHANGED <<data, job_matches, in_flight>>

\* AdminService.retrain_matching_model, behind POST /admin/retrain-matching-model:
\* "skipped" when the jobs table is empty; otherwise PureSemanticMatchService()
\* is constructed without its db argument, which raises TypeError before the loop
RetrainMatchingModel ==
  /\ last' = IF jobs = {}
             THEN [op |-> "retrain_matching_model", outcome |-> "returned", error |-> "",
                   summary |-> [status |-> "skipped", jobs_processed |-> 0]]
             ELSE [op |-> "retrain_matching_model", outcome |-> "raised",
                   error |-> "TypeError", summary |-> [status |-> "none"]]
  /\ UNCHANGED <<data, job_matches, in_flight>>

\* any jobs table over two postings, one open and one closed
InitRetrain ==
  /\ jobs \in SUBSET {1, 2}
  /\ visibility_opt_out \in [Employees -> BOOLEAN]
  /\ education \in [Employees -> {"strings", "dicts"}]
  /\ pipeline \in [jobs -> Pipelines]
  /\ job_matches = EmptyBag
  /\ in_flight = EmptyBag
  /\ last = NoCall

NextRetrain ==
  \/ RetrainModel
  \/ RetrainMatchingModel
  \/ \E e \in Employees : \E u \in ProfileUpdates(e) : UpdateProfile(e, u)

SpecRetrain == InitRetrain /\ [][NextRetrain]_vars

\* ------------------------------------------------- triggers of two postings
\* two job postings, any profiles, no match computed yet
InitTwoJobs ==
  /\ jobs = {1, 2}
  /\ visibility_opt_out \in [Employees -> BOOLEAN]
  /\ education \in [Employees -> {"strings", "dicts"}]
  /\ pipeline \in [jobs -> Pipelines]
  /\ job_matches = EmptyBag
  /\ in_flight = EmptyBag
  /\ last = NoCall

\* one trigger per posting at a time, the triggers of the two postings interleaved
NextTwoJobs ==
  \/ \E j \in jobs : ~BagIn(j, in_flight) /\ ClearExistingMatches(j)
  \/ \E j \in jobs : CalculateSemanticMatches(j)
  \/ \E j \in jobs : RuleTrigger(j)

SpecTwoJobs == InitTwoJobs /\ [][NextTwoJobs]_vars

\* ------------------------------------------------------ ranking of a pool
\* the largest pool the ranking is applied to
PoolSize == 3
\* similarities of the ranked pool, in 1/10000: below the threshold, two that
\* round to the same score (67.9), and a higher one
RankSimValues == {490, 6794, 6796, 8000}

\* the fetched pools: the employees of any subset of the ids, in any order
RankPools == UNION {Orders(S) : S \in SUBSET (1..PoolSize)}

\* the part of calculate_semantic_matches after the fit, applied to a fetched
\* pool and the similarities the fit gave its employees
RankCandidates(employees, similarities) ==
  /\ last' = [op |-> "semantic_matches", employees |-> employees,
              similarities |-> similarities, outcome |-> "returned", error |-> "",
              matches |-> SemanticMatches(employees, similarities)]
  /\ UNCHANGED <<data, job_matches, in_flight>>

NextRanking ==
  \/ last = NoCall /\ \E employees \in RankPools :
                        \E similarities \in [1..PoolSize -> RankSimValues] :
                          RankCandidates(employees, similarities)
  \/ last = NoCall /\ \E job \in RuleJobs, employees \in RulePools : ScorePool(job, employees)

SpecRanking == InitRuleScorer /\ [][NextRanking]_vars

\* ------------------------------------------------ terms of the rule scorer
\* the normalized skill sets the similar-skills helper is applied to: up to
\* three skills
RuleSkillSets ==
  {S \in SUBSET {"python", "fastapi", "aws", "java", "javascript",
                 "machine learning", "deep learning"} : Cardinality(S) <= 3}

\* lines 108-114: the first term added to total_score
RequiredSkillsTerm(job, employee) ==
  /\ LET job_required_skills == NormalizeSkills(job.required_skills)
         employee_skills == NormalizeSkills(employee.technical_skills)
         required_score == SkillsMatch(job_required_skills, employee_skills)
     IN  last' = [op |-> "required_skills_term", job |-> job, employee |-> employee,
                  outcome |-> "returned", error |-> "",
                  value |-> required_score * weights.required_skills_exact]
  /\ UNCHANGED <<data, job_matches, in_flight>>

\* lines 116-118: the second term, for normalized skill sets
SimilarSkillsTerm(job_skills, employee_skills) ==
  /\ last' = [op |-> "similar_skills_term", job_skills |-> job_skills,
              employee_skills |-> employee_skills, outcome |-> "returned", error |-> "",
              value |-> SimilarSkillsMatch(job_skills, employee_skills)
                          * weights.required_skills_similar]
  /\ UNCHANGED <<data, job_matches, in_flight>>

\* line 125: one call of _calculate_experience_match
ExperienceTerm(job, employee) ==
  /\ LET r == ExperienceMatch(job, employee)
     IN  last' = [op |-> "experience_match", job |-> job, employee |-> employee,
                  outcome |-> IF r.raised THEN "raised" ELSE "returned",
                  error |-> r.error,
                  value |-> IF r.raised THEN <<>> ELSE <<r.value>>]
  /\ UNCHANGED <<data, job_matches, in_flight>>

\* each helper of the rule scorer applied once
NextRuleTerms ==
  \/ last = NoCall /\ \E job \in RuleJobs, employee \in RuleEmployees :
                        RequiredSkillsTerm(job, employee)
  \/ last = NoCall /\ \E job_skills \in RuleSkillSets, employee_skills \in RuleSkillSets :
                        SimilarSkillsTerm(job_skills, employee_skills)
  \/ last = NoCall /\ \E job \in RuleJobs, employee \in RuleEmployees :
                        ExperienceTerm(job, employee)

SpecRuleTerms == InitRuleScorer /\ [][NextRuleTerms]_vars

\* ------------------------------------- the fallback of calculate_match_score
\* the words of the extracted texts for which the fit raises: stop words only
\* (fit_transform rejects an empty vocabulary)
FallbackWords == {"the", "of", "and", "with"}

\* lines 305-310: the share of the job's words that the employee's text holds, as
\* a percentage rounded to one decimal (tenths of a percent here)
WordOverlapScore(job_words, employee_words) ==
  IF Cardinality(job_words) > 0
  THEN RoundHalfEven(Cardinality(job_words \cap employee_words) * 1000,
                     Cardinality(job_words))
  ELSE 0

\* calculate_match_score on a pair whose fit raises
FallbackScore(job_words, employee_words) ==
  /\ last' = [op |-> "fallback_score", job_words |-> job_words,
              employee_words |-> employee_words, outcome |-> "returned", error |-> "",
              score |-> WordOverlapScore(job_words, employee_words)]
  /\ UNCHANGED <<data, job_matches, in_flight>>

NextFallback ==
  last = NoCall /\ \E job_words \in SUBSET FallbackWords :
                     \E employee_words \in SUBSET FallbackWords :
                       FallbackScore(job_words, employee_words)

SpecFallback == InitRuleScorer /\ [][NextFallback]_vars

\* ------------------------------------------------------------------ claims
Shortlisted(B, j, e) ==
  \E r \in BagToSet(B) : r.job_id = j /\ r.employee_id = e /\ r.shortlisted

IsTrigger(call) == call.op \in {"trigger_semantic", "trigger_rule"}

\* C1: a pair shortlisted before a trigger of its job runs is still shortlisted
\* when the trigger has completed (checked with the requests one after the other)
C1_ShortlistSurvivesTrigger ==
  [][\A j \in JobIds :
       (TriggerJobMatching(j) \/ RuleTrigger(j)) =>
         \A e \in Employees :
           Shortlisted(job_matches, j, e) => Shortlisted(job_matches', j, e)]_vars

\* C2: the trigger replaces the rows of its job in one commit: the commit that
\* removes the old rows of the job leaves the rows the trigger computes, so no
\* committed state lacks both, also when the trigger fails after the deletion
C2_AtomicReplace ==
  [][\A j \in JobIds :
       (ClearExistingMatches(j) /\ RowsOfJob(job_matches, j) # EmptyBag) =>
         \E r \in SemanticResults(j) :
           /\ r.call.outcome = "returned"
           /\ RowsOfJob(job_matches', j) = r.insert]_vars

C4_OptOutExcluded ==
  [][\A j \in JobIds :
       (CalculateSemanticMatches(j) \/ RuleTrigger(j)) =>
         /\ \A i \in DOMAIN last'.matches :
              ~visibility_opt_out[last'.matches[i].employee_id]
         /\ \A r \in BagToSet(job_matches' (-) job_matches) :
              ~visibility_opt_out[r.employee_id]]_vars

\* an opted-out candidate who would have matched, and a completed trigger that
\* returned and stored no match for them
C4_Witness ==
  /\ last.op = "trigger_semantic"
  /\ last.outcome = "returned"
  /\ last.job_id \in jobs
  /\ pipeline[last.job_id] # FitError
  /\ \E e \in RoleCandidates :
       /\ visibility_opt_out[e]
       /\ ~ExtractRaises(e)
       /\ pipeline[last.job_id][1][e] >= min_similarity_threshold
       /\ \A i \in DOMAIN last.matches : last.matches[i].employee_id # e
       /\ RowsOfPair(job_matches, last.job_id, e) = EmptyBag

\* C5: a trigger called with the id of a job that does not exist fails with
\* NotFound; it does not return normally
C5_MissingJobSignalsNotFound ==
  (IsTrigger(last) /\ last.job_id \notin jobs)
  => (last.outcome = "raised" /\ last.error = "NotFound")

\* C6: a trigger of a job that does not exist sends no delete, insert or commit
\* and leaves the rows of every job as they were
C6_MissingJobNoSideEffects ==
  [][\A j \in JobIds \ jobs :
       (TriggerJobMatching(j) \/ RuleTrigger(j)) =>
         (job_matches' = job_matches /\ last'.db_ops = {})]_vars

\* C7: a trigger that directly follows a trigger of the same job leaves the same
\* rows and returns the same list, and a trigger clears no shortlisted flag set
\* before it (requests one after the other, data unchanged between the calls)
C7_TriggerIdempotent ==
  [][\A j \in jobs :
       TriggerJobMatching(j) =>
         /\ (last.op = "trigger_semantic" /\ last.job_id = j /\ last.outcome = "returned")
              => (job_matches' = job_matches /\ last'.matches = last.matches)
         /\ \A e \in Employees :
              Shortlisted(job_matches, j, e) => Shortlisted(job_matches', j, e)]_vars

\* C8: a trigger of an existing job that finds no eligible candidate returns,
\* with an empty match list, and produces no row for the job
C8_EmptyPoolEmptyResult ==
  [][\A j \in jobs :
       /\ (CalculateSemanticMatches(j) /\ SemanticEligible = {}) =>
            /\ last'.outcome = "returned"
            /\ last'.matches = <<>>
            /\ RowsOfJob(job_matches', j) = RowsOfJob(job_matches, j)
       /\ (RuleTrigger(j) /\ RuleEligible = {}) =>
            /\ last'.outcome = "returned"
            /\ last'.matches = <<>>
            /\ RowsOfJob(job_matches', j) = EmptyBag]_vars

\* a completed semantic trigger of an existing job with every candidate opted out
C8_Witness ==
  /\ last.op = "trigger_semantic"
  /\ last.job_id \in jobs
  /\ last.outcome = "returned"
  /\ last.matches = <<>>
  /\ SemanticEligible = {}
  /\ RowsOfJob(job_matches, last.job_id) = EmptyBag
  /\ in_flight = EmptyBag

\* C9: calculate_match_score never raises: every call returns a score
C9_ScoreNeverRaises ==
  last.op = "score" => (last.outcome = "returned" /\ Len(last.score) = 1)

C11_RuleBatchSkipsFailure ==
  [][\A j \in jobs :
       RuleTrigger(j) =>
         /\ last'.outcome = "returned"
         /\ "commit" \in last'.db_ops]_vars

\* C12: every call of the rule scorer returns a score between 0 and 100
C12_RuleScoreInRange ==
  last.op = "rule_score" =>
    /\ last.outcome = "returned"
    /\ \A i \in DOMAIN last.score :
         last.score[i] >= 0 /\ last.score[i] <= 100 * FullFactor

\* the posting and the candidate of the example: skills Python, FastAPI and AWS
\* with three years required, against Java with one year and nothing else
ExampleJob ==
  [title |-> {"backend", "engineer"}, required_skills |-> {"Python", "FastAPI", "AWS"},
   optional_skills |-> {}, min_years_experience |-> 3, preferred_certifications |-> {}]

ExampleCandidate ==
  [id |-> 1, technical_skills |-> {"Java"}, months_experience |-> 12,
   career_aspirations |-> {}, education |-> {}, certifications |-> {}]

\* C14: the example candidate scores below the threshold of 20.0 for the example
\* posting, and a scoring run over a pool with that candidate returns no match
\* for them
C14_ExampleBelowThreshold ==
  /\ (last.op = "rule_score" /\ last.job = ExampleJob /\ last.employee = ExampleCandidate)
       => (/\ last.outcome = "returned"
           /\ \A i \in DOMAIN last.score :
                last.score[i] < qualification_threshold * FullFactor)
  /\ (/\ last.op = "rule_matches"
      /\ last.job = ExampleJob
      /\ \E i \in DOMAIN last.employees : last.employees[i] = ExampleCandidate)
       => (/\ last.outcome = "returned"
           /\ \A k \in DOMAIN last.matches :
                last.matches[k].employee_id # ExampleCandidate.id)

\* C15: for a posting with required skills, a candidate whose skills are the
\* required ones scores at least what any candidate without a common skill and
\* with the same other profile fields scores
C15_ExactSkillsScoreAtLeast ==
  (/\ last.op = "rule_score"
   /\ NormalizeSkills(last.job.required_skills) # {}
   /\ NormalizeSkills(last.employee.technical_skills)
        = NormalizeSkills(last.job.required_skills))
  => /\ last.outcome = "returned"
     /\ \A other \in RuleEmployees :
          (/\ [other EXCEPT !.technical_skills = {}]
                = [last.employee EXCEPT !.technical_skills = {}]
           /\ NormalizeSkills(other.technical_skills)
                \cap NormalizeSkills(last.job.required_skills) = {})
          => LET r == IndustryStandardScore(last.job, other)
             IN  /\ ~r.raised
                 /\ \A i \in DOMAIN last.score : r.score <= last.score[i]

IsRetrain(call) == call.op \in {"retrain_model", "retrain_matching_model"}

\* C16: a retrain reports status "skipped" exactly when there is no open job,
\* else "completed" or a failure (a "failed" status, or an exception), no other
\* status value, and its summary holds the counts of jobs and candidates processed
C16_RetrainStatus ==
  IsRetrain(last) =>
    IF last.outcome = "raised" THEN OpenJobs # {}
    ELSE /\ last.summary.status \in {"skipped", "completed", "failed"}
         /\ last.summary.status = "skipped" <=> OpenJobs = {}
         /\ {"jobs_processed", "employees_processed"} \subseteq DOMAIN last.summary

C18_RuleThreshold ==
  last.op = "rule_matches" =>
    /\ last.outcome = "returned"
    /\ \A k \in 1..Len(last.employees) :
         LET employee == last.employees[k]
             r == IndustryStandardScore(last.job, employee)
         IN  /\ ~r.raised
             /\ (\E i \in 1..Len(last.matches) : last.matches[i].employee_id = employee.id)
                  <=> r.score >= qualification_threshold * FullFactor

NonIncreasing(matches) ==
  \A i, k \in 1..Len(matches) : i < k => matches[i].score >= matches[k].score

ShortlistedCount(B, j, e) ==
  LET R == {r \in BagToSet(B) : r.job_id = j /\ r.employee_id = e /\ r.shortlisted}
  IN  BagCardinality([r \in R |-> B[r]])

C21_EmptyRequiredFullWeight ==
  (last.op = "required_skills_term" /\ NormalizeSkills(last.job.required_skills) = {}) =>
    last.value = 30 * FullFactor

\* the term of a job whose only required skill is blank, for a candidate with skills
C21_Witness ==
  /\ last.op = "required_skills_term"
  /\ last.job.required_skills = {" "}
  /\ last.employee.technical_skills # {}
  /\ last.value = weights.required_skills_exact * FullFactor

\* the scoring of a semantic trigger of job j comes to nothing: the pool is
\* empty, or the texts are extracted and fit_transform raises
ScoringFails(j) ==
  \/ SemanticEligible = {}
  \/ pipeline[j] = FitError /\ ~\E e \in SemanticEligible : ExtractRaises(e)

C23_SimilarAveragedOverUnmatched ==
  last.op = "similar_skills_term" =>
    LET unmatched == last.job_skills \ last.employee_skills
        best == [s \in unmatched |->
                   MaxOf({SkillSimilarity(s, t) : t \in last.employee_skills})]
    IN  last.value * Cardinality(unmatched)
          = weights.required_skills_similar * SumOver(unmatched, best)

\* C24: the experience factor of a job and a candidate is computed, and is 1.0
\* without a minimum or with at least the minimum, and otherwise 1 - 0.2 per
\* missing year, not below 0; the candidate's years are the whole years of
\* months_experience
C24_ExperienceFactor ==
  last.op = "experience_match" =>
    /\ last.outcome = "returned"
    /\ LET minimum == last.job.min_years_experience
           years == last.employee.months_experience \div 12
           factor == last.value[1]
       IN  /\ minimum = 0 => factor = FullFactor
           /\ (minimum > 0 /\ years >= minimum) => factor = FullFactor
           /\ (minimum > 0 /\ years < minimum) =>
                factor = Max(0, FullFactor - (minimum - years) * (FullFactor \div 5))
           /\ factor * weights.experience_match <= 20 * FullFactor

C30_RuleFailureKeepsRows ==
  [][\A j \in jobs :
       (RuleEligible # {} /\ RuleTrigger(j)) =>
         /\ last'.outcome = "raised"
         /\ last'.db_ops = {}
         /\ job_matches' = job_matches]_vars

\* a rule trigger has raised and the row an earlier semantic trigger stored for
\* the job is still there
C30_Witness ==
  /\ last.op = "trigger_rule" /\ last.outcome = "raised"
  /\ \E r \in BagToSet(job_matches) :
       r.job_id = last.job_id /\ r.method = "advanced_semantic_tfidf_lsa"

====
